---- MODULE Spec2Model ----
(***************************************************************************)
(* Model of google_ads_monitor.py: the pipeline                            *)
(*   scrape_search_engine_land -> filter_relevant_articles ->              *)
(*   summarize_article (per article) -> create_html_email -> send_email    *)
(* driven by main().                                                       *)
(*                                                                         *)
(* Text is a sequence of one-character strings, so that lower(), strip()   *)
(* and the substring test work on it as they do in Python.  An optional    *)
(* value (a tag bs4 may not find, an attribute that may be absent) is a    *)
(* sequence of length 0 or 1.                                              *)
(***************************************************************************)
EXTENDS Integers, Sequences, FiniteSets, TLC

VARIABLES
    pc,          \* control position of main() / of the function under check
    listing,     \* the listing page requests.get answers with (scrape input)
    articles,    \* main: articles (list of Candidates)
    response,    \* outcome of the ranking model call
    relevant,    \* main: relevant_articles
    path,        \* branch filter_relevant_articles returned through
    article,     \* summarize_article: its argument
    fetch,       \* summarize_article: outcome of the article-page fetch
    generation,  \* summarize_article: outcome of the model call
    prompt,      \* summarize_article: the prompt it sent to the model
    summary,     \* summarize_article: its return value
    summarized,  \* main: articles_with_summaries
    html_email,  \* main: html_email (the digest)
    smtp,        \* SMTP steps that completed, in order
    sent,        \* return value of send_email
    calls,       \* stages main() has called, in order
    escaped      \* an exception escaped to main()

vars == <<pc, listing, articles, response, relevant, path, article, fetch,
          generation, prompt, summary, summarized, html_email, smtp, sent, calls,
          escaped>>

----------------------------------------------------------------------------
(* Text helpers                                                            *)

Min(a, b) == IF a < b THEN a ELSE b

\* Python s[:n]
Take(s, n) == SubSeq(s, 1, Min(Len(s), n))

UpperAlpha == <<"A","B","C","D","E","F","G","H","I","J","K","L","M",
                "N","O","P","Q","R","S","T","U","V","W","X","Y","Z">>
LowerAlpha == <<"a","b","c","d","e","f","g","h","i","j","k","l","m",
                "n","o","p","q","r","s","t","u","v","w","x","y","z">>

\* str.lower() on one character
lower_char(c) ==
    IF \E i \in 1..Len(UpperAlpha) : UpperAlpha[i] = c
    THEN LowerAlpha[CHOOSE i \in 1..Len(UpperAlpha) : UpperAlpha[i] = c]
    ELSE c

\* str.lower()
lower(s) == [i \in 1..Len(s) |-> lower_char(s[i])]

\* Python `kw in text`: scan for the first offset at which kw occurs
RECURSIVE find_from(_, _, _)
find_from(kw, text, i) ==
    IF i + Len(kw) - 1 > Len(text) THEN FALSE
    ELSE IF SubSeq(text, i, i + Len(kw) - 1) = kw THEN TRUE
    ELSE find_from(kw, text, i + 1)

contains(kw, text) == find_from(kw, text, 1)

\* str.strip(): drop leading and trailing blanks
RECURSIVE lstrip(_)
lstrip(s) == IF s # <<>> /\ Head(s) = " " THEN lstrip(Tail(s)) ELSE s

RECURSIVE rstrip(_)
rstrip(s) ==
    IF s # <<>> /\ s[Len(s)] = " " THEN rstrip(SubSeq(s, 1, Len(s) - 1)) ELSE s

strip(s) == rstrip(lstrip(s))

\* Tag.get_text(strip=True) of a tag holding one text node
get_text(s) == strip(s)

\* KEYWORDS
KEYWORDS ==
    << <<"g","o","o","g","l","e"," ","a","d","s">>,
       <<"g","o","o","g","l","e"," ","a","d","v","e","r","t","i","s","i","n","g">>,
       <<"p","p","c">>,
       <<"p","a","i","d"," ","s","e","a","r","c","h">>,
       <<"g","o","o","g","l","e"," ","a","d","w","o","r","d","s">> >>

----------------------------------------------------------------------------
(* scrape_search_engine_land                                               *)
(*                                                                         *)
(* A listing is [net, status, elements]: whether requests.get answered,    *)
(* the HTTP status, and the <article> elements of the page in document     *)
(* order.  An element is                                                   *)
(*   heading : Option(text)   first h2/h3/h4 and its raw text              *)
(*   hlink   : Option(Option(text))  first <a> inside the heading, and its *)
(*                                   href attribute if it has one          *)
(*   alink   : Option(Option(text))  first <a> of the element              *)
(*   para    : Option(text)   first <p>                                    *)
(*   excerpt : Option(text)   first <div class="excerpt|description">      *)

\* find_all('article', limit=30)
ArticleLimit == 30

\* response.raise_for_status(): raises for 4xx and 5xx
raise_for_status(status) == 400 <= status /\ status < 600

\* title_tag.find('a') or article.find('a')  (a found Tag is truthy)
link_tag(el) == IF el.hlink # <<>> THEN el.hlink ELSE el.alink

\* not link_tag or not link_tag.get('href')
no_href(el) ==
    \/ link_tag(el) = <<>>
    \/ link_tag(el)[1] = <<>>
    \/ link_tag(el)[1][1] = <<>>

\* article.find('p') or article.find('div', class_=[...])
snippet_tag(el) == IF el.para # <<>> THEN el.para ELSE el.excerpt

\* one iteration of the for loop: the Candidates the element adds (0 or 1)
extract(el) ==
    IF el.heading = <<>> THEN <<>>
    ELSE IF no_href(el) THEN <<>>
    ELSE << [title   |-> get_text(el.heading[1]),
             url     |-> link_tag(el)[1][1],
             snippet |-> IF snippet_tag(el) # <<>>
                         THEN get_text(snippet_tag(el)[1]) ELSE <<>>] >>

RECURSIVE extract_all(_)
extract_all(els) ==
    IF els = <<>> THEN <<>> ELSE extract(Head(els)) \o extract_all(Tail(els))

scrape_search_engine_land(l) ==
    IF l.net # "ok" THEN <<>>
    ELSE IF raise_for_status(l.status) THEN <<>>
    ELSE extract_all(Take(l.elements, ArticleLimit))

----------------------------------------------------------------------------
(* filter_relevant_articles and keyword_filter_fallback                    *)
(*                                                                         *)
(* The ranking model's answer is [raised, text]: whether generate_content  *)
(* (or response.text) raised, and the text as a sequence of tokens.  A     *)
(* token is [kind, number, score, reason] with kind                        *)
(*   "["  "]"  the two brackets the regular expression looks for           *)
(*   "txt"     prose, or anything else that is not JSON                    *)
(*   "obj"     a JSON object; number is <<>> when it has no "number" key   *)
(* Commas and blanks between JSON values are left out of the token list.   *)

\* rankings[:3]
RankTop == 3

\* relevant[:3]
FallbackTop == 3

Tok(k) == [kind |-> k, number |-> <<>>, score |-> 0, reason |-> <<>>]

Obj(n, s) == [kind |-> "obj", number |-> <<n>>, score |-> s, reason |-> <<"r">>]

ObjNoNumber(s) == [kind |-> "obj", number |-> <<>>, score |-> s, reason |-> <<"r">>]

\* a nested array met as an element of the parsed list
ArrValue == Tok("arr")

Positions(text, k) == {i \in 1..Len(text) : text[i].kind = k}

SetMin(S) == CHOOSE x \in S : \A y \in S : x <= y

SetMax(S) == CHOOSE x \in S : \A y \in S : y <= x

\* re.search(r'\[.*\]', text, re.DOTALL): the leftmost "[" that has a "]"
\* after it, up to the last "]" (greedy).  Option(match).
re_search(text) ==
    LET opens  == Positions(text, "[")
        closes == Positions(text, "]")
    IN  IF opens = {} \/ closes = {} THEN <<>>
        ELSE IF SetMax(closes) < SetMin(opens) THEN <<>>
        ELSE << SubSeq(text, SetMin(opens), SetMax(closes)) >>

\* bracket depth after the first i tokens
RECURSIVE depth(_, _)
depth(toks, i) ==
    IF i = 0 THEN 0
    ELSE depth(toks, i - 1)
         + (IF toks[i].kind = "[" THEN 1 ELSE IF toks[i].kind = "]" THEN -1 ELSE 0)

\* the values of the outer array, from token i on: an object, or a nested array
RECURSIVE elements_from(_, _)
elements_from(toks, i) ==
    IF i >= Len(toks) THEN <<>>
    ELSE IF depth(toks, i - 1) # 1 THEN elements_from(toks, i + 1)
    ELSE IF toks[i].kind = "obj" THEN <<toks[i]>> \o elements_from(toks, i + 1)
    ELSE IF toks[i].kind = "[" THEN <<ArrValue>> \o elements_from(toks, i + 1)
    ELSE elements_from(toks, i + 1)

\* json.loads(match): [ok, value]; not ok stands for JSONDecodeError.
\* m starts with "[" and ends with "]" (it is a match of the expression).
json_loads(m) ==
    LET wellformed ==
            /\ \A i \in 1..Len(m) : m[i].kind # "txt"
            /\ \A i \in 1..(Len(m) - 1) : depth(m, i) >= 1
            /\ depth(m, Len(m)) = 0
    IN  IF wellformed THEN [ok |-> TRUE, value |-> elements_from(m, 2)]
        ELSE [ok |-> FALSE, value |-> <<>>]

\* Python seq[idx] for -len <= idx < len
py_index(seq, idx) == IF idx >= 0 THEN seq[idx + 1] ELSE seq[Len(seq) + idx + 1]

\* body of the loop over rankings[:3]: [raised, items]
resolve(arts, rank) ==
    IF rank.kind # "obj" THEN [raised |-> TRUE, items |-> <<>>]        \* TypeError
    ELSE IF rank.number = <<>> THEN [raised |-> TRUE, items |-> <<>>]  \* KeyError
    ELSE LET article_index == rank.number[1] - 1
         IN  IF ~(article_index < Len(arts)) THEN [raised |-> FALSE, items |-> <<>>]
             ELSE IF article_index < -Len(arts)
                  THEN [raised |-> TRUE, items |-> <<>>]               \* IndexError
             ELSE [raised |-> FALSE,
                   items  |-> << [title   |-> py_index(arts, article_index).title,
                                  url     |-> py_index(arts, article_index).url,
                                  snippet |-> py_index(arts, article_index).snippet,
                                  relevance_score  |-> rank.score,
                                  relevance_reason |-> rank.reason] >>]

\* top_rankings with the [:3] forgotten
top_rankings_uncut(rankings) == rankings

\* rankings[:3]: the entries the loop visits
top_rankings(rankings) == Take(rankings, RankTop)

RECURSIVE rank_loop(_, _)
rank_loop(arts, rankings) ==
    IF rankings = <<>> THEN [raised |-> FALSE, items |-> <<>>]
    ELSE LET first == resolve(arts, Head(rankings))
             rest  == rank_loop(arts, Tail(rankings))
         IN  [raised |-> first.raised \/ rest.raised,
              items  |-> first.items \o rest.items]

\* keyword.lower() for keyword in KEYWORDS
lowered_keywords == [k \in 1..Len(KEYWORDS) |-> lower(KEYWORDS[k])]

\* is_relevant with the .lower() of the text forgotten
is_relevant_case_sensitive(a) ==
    LET text == a.title \o <<" ">> \o a.snippet
    IN  \E k \in 1..Len(KEYWORDS) : contains(lowered_keywords[k], text)

\* any(keyword.lower() in text for keyword in KEYWORDS)
is_relevant(a) ==
    LET text == lower(a.title \o <<" ">> \o a.snippet)
    IN  \E k \in 1..Len(KEYWORDS) : contains(lowered_keywords[k], text)

keyword_filter_fallback(arts) == Take(SelectSeq(arts, is_relevant), FallbackTop)

\* [ret, path]: the list returned, and the return statement reached
filter_relevant_articles(arts, resp) ==
    IF arts = <<>> THEN [ret |-> <<>>, path |-> "empty"]
    ELSE IF resp.raised
    THEN [ret |-> keyword_filter_fallback(arts), path |-> "except"]
    ELSE LET json_match == re_search(resp.text)
         IN  IF json_match = <<>>
             THEN [ret |-> keyword_filter_fallback(arts), path |-> "nomatch"]
             ELSE LET parsed == json_loads(json_match[1])
                      looped == rank_loop(arts, top_rankings(parsed.value))
                  IN  IF ~parsed.ok \/ looped.raised
                      THEN [ret |-> keyword_filter_fallback(arts), path |-> "except"]
                      ELSE [ret |-> looped.items, path |-> "ai"]

----------------------------------------------------------------------------
(* summarize_article                                                       *)
(*                                                                         *)
(* The article-page fetch is [raised, body]: whether requests.get or the   *)
(* parse raised, and the text of the container found (article, main or     *)
(* body) if any.  The model call is [raised, text].                        *)

\* article_text[:8000]
TextBudget == 8000

\* the bullet character U+2022
Bullet == "U+2022"

\* article_text as the prompt is built (lines 185-203)
article_text(a, f) ==
    IF f.raised THEN a.snippet
    ELSE IF f.body = <<>> THEN <<>>
    ELSE Take(get_text(f.body[1]), TextBudget)

\* the f-string of lines 206-216, by its two holes
summary_prompt(a, f) == [title |-> a.title, content |-> article_text(a, f)]

\* summarize_article returning the snippet bullet from the fetch's except block
summarize_article_return_on_fetch_failure(a, f, g) ==
    IF f.raised \/ g.raised THEN <<Bullet, " ">> \o a.snippet ELSE g.text

\* lines 218-226: the model's text, or the snippet as one bullet
summarize_article(a, f, g) ==
    IF g.raised THEN <<Bullet, " ">> \o a.snippet ELSE g.text

----------------------------------------------------------------------------
(* create_html_email                                                       *)

colors == <<"#1a73e8", "#d93025", "#0d9488">>

\* one <div> block per article; i is enumerate(..., 1), colors[i % 3] is 0-based
article_block(i, a) ==
    [n       |-> i,
     color   |-> colors[(i % 3) + 1],
     title   |-> a.title,
     summary |-> a.summary,
     url     |-> a.url]

create_html_email(articles_with_summaries, today) ==
    [today  |-> today,
     blocks |-> [i \in 1..Len(articles_with_summaries) |->
                    article_block(i, articles_with_summaries[i])]]

----------------------------------------------------------------------------
(* send_email                                                              *)

\* the statements of the try block, lines 320-324
SmtpSteps == <<"connect", "starttls", "login", "send_message", "quit">>

\* send_email without its try/except: a failing step's exception leaves it
send_email_uncaught(html_content, fail_at) ==
    IF fail_at = 0
    THEN [ret    |-> TRUE,
          raised |-> FALSE,
          steps  |-> [k \in 1..Len(SmtpSteps) |-> [step |-> SmtpSteps[k], ok |-> TRUE]]]
    ELSE [ret    |-> FALSE,
          raised |-> TRUE,
          steps  |-> [k \in 1..fail_at |-> [step |-> SmtpSteps[k], ok |-> k < fail_at]]]

\* fail_at = 0: no step raises; fail_at = k: step k raises.
\* [ret, raised, steps]: the return value, whether an exception leaves the
\* function, and the steps attempted with their outcome.
send_email(html_content, fail_at) ==
    IF fail_at = 0
    THEN [ret    |-> TRUE,
          raised |-> FALSE,
          steps  |-> [k \in 1..Len(SmtpSteps) |-> [step |-> SmtpSteps[k], ok |-> TRUE]]]
    ELSE [ret    |-> FALSE,
          raised |-> FALSE,
          steps  |-> [k \in 1..fail_at |-> [step |-> SmtpSteps[k], ok |-> k < fail_at]]]

----------------------------------------------------------------------------
(* Bounded inputs                                                          *)

MaxArticles == 4    \* longest list handed to filter_relevant_articles
MaxEntries  == 4    \* most objects in a well-formed array the model returns
MaxTokens   == 4    \* longest free-form model answer, in tokens
MaxElems    == 31   \* most <article> elements of a scraped listing page
MaxPeriod   == 2    \* listing pages repeat a pattern of at most this many elements
MaxMainElems == 2   \* most <article> elements of a listing in a full run
MaxText     == 2    \* longest snippet, page text and summary text of SpecSummarize

SeqUpTo(S, n) == UNION {[1..k -> S] : k \in 0..n}

Some(x) == <<x>>

None == <<>>

T_Google == <<"G","o","o","g","l","e">>
T_Ads    == <<"A","d","s">>
T_seo    == <<"s","e","o">>
T_pp_c   == <<"p","p"," ","c">>
T_ppc    == <<" ","P","P","C"," ">>
U_a      == <<"/","a">>
U_b      == <<"/","b">>

\* "Google" + " " + "Ads" holds the keyword "google ads" once lower-cased
cAds == [title |-> T_Google, url |-> U_a, snippet |-> T_Ads]

\* "seo pp c" holds no keyword
cSeo == [title |-> T_seo, url |-> U_b, snippet |-> T_pp_c]

Candidates == {cAds, cSeo}

RankArticles == SeqUpTo(Candidates, MaxArticles)

\* objects of a well-formed array: numbers 0, 1, 2 and one beyond every list
RankEntries == {Obj(0, 9), Obj(1, 5), Obj(2, 7), Obj(MaxArticles + 2, 8)}

\* objects the loop raises on: no "number" key (KeyError), and an index below
\* -len(articles) for every list (IndexError)
BadEntries == {ObjNoNumber(4), Obj(-(MaxArticles + 1), 6)}

\* the tokens of a free-form answer
FreeTokens == {Tok("["), Tok("]"), Tok("txt")}

\* arrays of well-formed objects; arrays with one bad object after k good ones;
\* free-form answers
RankTexts ==
    {<<Tok("[")>> \o es \o <<Tok("]")>> : es \in SeqUpTo(RankEntries, MaxEntries)}
    \cup {<<Tok("[")>> \o [i \in 1..k |-> Obj(1, 5)] \o <<bad, Tok("]")>> :
            k \in 0..MaxEntries, bad \in BadEntries}
    \cup SeqUpTo(FreeTokens, MaxTokens)

ModelRaised == [raised |-> TRUE, text |-> <<>>]

RankResponses == {ModelRaised} \cup {[raised |-> FALSE, text |-> t] : t \in RankTexts}

\* <article> elements
El(h, hl, al, p, ex) ==
    [heading |-> h, hlink |-> hl, alink |-> al, para |-> p, excerpt |-> ex]

elAds       == El(Some(T_Google), Some(Some(U_a)), Some(Some(U_a)), Some(T_Ads), None)
elSeo       == El(Some(T_seo), None, Some(Some(U_b)), None, Some(T_pp_c))
elNoHeading == El(None, None, Some(Some(U_a)), Some(T_Ads), None)
elNoAnchor  == El(Some(T_seo), None, None, Some(T_Ads), None)
elNoHref    == El(Some(T_seo), Some(None), Some(None), None, None)
elEmptyHref == El(Some(T_seo), Some(Some(<<>>)), Some(Some(<<>>)), None, None)
elBlankHead == El(Some(<<" ">>), Some(Some(U_b)), Some(Some(U_b)), Some(T_ppc), None)

ElemKinds ==
    {elAds, elSeo, elNoHeading, elNoAnchor, elNoHref, elEmptyHref, elBlankHead}

\* a page of n elements repeating the pattern pat
Page(n, pat) == [i \in 1..n |-> pat[((i - 1) % Len(pat)) + 1]]

Statuses == {200, 300, 404, 500}

ScrapeListings ==
    {[net |-> nt, status |-> st, elements |-> Page(n, pat)] :
        nt \in {"ok", "error"}, st \in Statuses, n \in 0..MaxElems,
        pat \in SeqUpTo(ElemKinds, MaxPeriod) \ {<<>>}}

MainListings ==
    {[net |-> nt, status |-> st, elements |-> els] :
        nt \in {"ok", "error"}, st \in {200, 404},
        els \in SeqUpTo({elAds, elSeo, elNoHeading}, MaxMainElems)}

SumChars == {"a", " "}

SumArticles ==
    {[title |-> T_Google, url |-> U_a, snippet |-> sn] : sn \in SeqUpTo(SumChars, MaxText)}

SumFetches ==
    {[raised |-> TRUE, body |-> None], [raised |-> FALSE, body |-> None]}
    \cup {[raised |-> FALSE, body |-> Some(t)] : t \in SeqUpTo(SumChars, MaxText)}

SumGenerations ==
    {[raised |-> TRUE, text |-> <<>>]}
    \cup {[raised |-> FALSE, text |-> t] : t \in SeqUpTo({Bullet, "a"}, MaxText)}

\* outcomes of the per-article calls in a full run
MainFetches == {[raised |-> TRUE, body |-> None], [raised |-> FALSE, body |-> Some(T_ppc)]}

MainGenerations ==
    {[raised |-> TRUE, text |-> <<>>], [raised |-> FALSE, text |-> <<>>],
     [raised |-> FALSE, text |-> <<Bullet, " ", "a">>]}

Dates == {"November 01, 2026"}

----------------------------------------------------------------------------
(* State                                                                   *)

NoListing    == [net |-> "error", status |-> 0, elements |-> <<>>]
NoArticle    == [title |-> <<>>, url |-> <<>>, snippet |-> <<>>]
NoFetch      == [raised |-> TRUE, body |-> None]
NoGeneration == [raised |-> TRUE, text |-> <<>>]
NoPrompt     == [title |-> <<>>, content |-> <<>>]
NoHtml       == [today |-> "", blocks |-> <<>>]

----------------------------------------------------------------------------
(* main(): one action per statement that calls a stage or returns          *)

\* no call of scrape_search_engine_land yet
NoScrapeCall == listing = NoListing

\* no call of filter_relevant_articles yet
NoRankCall ==
    /\ response = ModelRaised
    /\ relevant = <<>>
    /\ path = "none"

\* no call of summarize_article yet
NoSummarizeCall ==
    /\ article = NoArticle
    /\ fetch = NoFetch
    /\ generation = NoGeneration
    /\ prompt = NoPrompt
    /\ summary = <<>>

\* nothing summarized, rendered or sent yet
NoOutput ==
    /\ summarized = <<>>
    /\ html_email = NoHtml
    /\ smtp = <<>>
    /\ sent = None
    /\ calls = <<>>
    /\ escaped = FALSE

Init ==
    /\ pc = "start"
    /\ articles = <<>>
    /\ NoScrapeCall
    /\ NoRankCall
    /\ NoSummarizeCall
    /\ NoOutput

\* line 347: articles = scrape_search_engine_land()
MainScrape ==
    /\ pc = "start"
    /\ \E l \in MainListings :
        /\ listing' = l
        /\ articles' = scrape_search_engine_land(l)
    /\ calls' = Append(calls, "scrape")
    /\ pc' = "scraped"
    /\ UNCHANGED <<response, relevant, path, article, fetch, generation, prompt,
                   summary, summarized, html_email, smtp, sent, escaped>>

\* lines 348-350: if not articles: return
ExitNoArticles ==
    /\ pc = "scraped"
    /\ articles = <<>>
    /\ pc' = "done"
    /\ UNCHANGED <<listing, articles, response, relevant, path, article, fetch,
                   generation, prompt, summary, summarized, html_email, smtp, sent,
                   calls, escaped>>

\* MainRank with the early return of lines 348-350 forgotten
MainRank_NoEmptyCheck ==
    /\ pc = "scraped"
    /\ \E resp \in RankResponses :
        LET r == filter_relevant_articles(articles, resp)
        IN  /\ relevant' = r.ret
            /\ path' = r.path
    /\ calls' = Append(calls, "rank")
    /\ pc' = "ranked"
    /\ UNCHANGED <<listing, articles, response, article, fetch, generation, prompt,
                   summary, summarized, html_email, smtp, sent, escaped>>

\* line 354: relevant_articles = filter_relevant_articles(articles)
MainRank ==
    /\ pc = "scraped"
    /\ articles # <<>>
    /\ \E resp \in RankResponses :
        LET r == filter_relevant_articles(articles, resp)
        IN  /\ relevant' = r.ret
            /\ path' = r.path
    /\ calls' = Append(calls, "rank")
    /\ pc' = "ranked"
    /\ UNCHANGED <<listing, articles, response, article, fetch, generation, prompt,
                   summary, summarized, html_email, smtp, sent, escaped>>

\* lines 355-357: if not relevant_articles: return
ExitNoRelevant ==
    /\ pc = "ranked"
    /\ relevant = <<>>
    /\ pc' = "done"
    /\ UNCHANGED <<listing, articles, response, relevant, path, article, fetch,
                   generation, prompt, summary, summarized, html_email, smtp, sent,
                   calls, escaped>>

\* lines 361-365, one iteration: the next article of relevant_articles is
\* summarized and appended with its summary.  (The dict is updated in place;
\* no later statement reads relevant_articles[i] or articles again.)
MainSummarize ==
    /\ pc = "ranked"
    /\ relevant # <<>>
    /\ Len(summarized) < Len(relevant)
    /\ \E f \in MainFetches, g \in MainGenerations :
        LET a == relevant[Len(summarized) + 1]
        IN  summarized' =
                Append(summarized, ("summary" :> summarize_article(a, f, g)) @@ a)
    /\ calls' = Append(calls, "summarize")
    /\ UNCHANGED <<pc, listing, articles, response, relevant, path, article, fetch,
                   generation, prompt, summary, html_email, smtp, sent, escaped>>

\* MainRender moved into the loop body: it runs once a summary exists
MainRender_InsideLoop ==
    /\ pc = "ranked"
    /\ relevant # <<>>
    /\ Len(summarized) >= 1
    /\ \E d \in Dates : html_email' = create_html_email(summarized, d)
    /\ calls' = Append(calls, "render")
    /\ pc' = "rendered"
    /\ UNCHANGED <<listing, articles, response, relevant, path, article, fetch,
                   generation, prompt, summary, summarized, smtp, sent, escaped>>

\* line 368: html_email = create_html_email(articles_with_summaries)
MainRender ==
    /\ pc = "ranked"
    /\ relevant # <<>>
    /\ Len(summarized) = Len(relevant)
    /\ \E d \in Dates : html_email' = create_html_email(summarized, d)
    /\ calls' = Append(calls, "render")
    /\ pc' = "rendered"
    /\ UNCHANGED <<listing, articles, response, relevant, path, article, fetch,
                   generation, prompt, summary, summarized, smtp, sent, escaped>>

\* line 371: send_email(html_email)
MainSend ==
    /\ pc = "rendered"
    /\ \E fail_at \in 0..Len(SmtpSteps) :
        LET r == send_email(html_email, fail_at)
        IN  /\ smtp' = r.steps
            /\ sent' = IF r.raised THEN None ELSE Some(r.ret)
            /\ escaped' = r.raised
            /\ pc' = IF r.raised THEN "crashed" ELSE "sent"
    /\ calls' = Append(calls, "send")
    /\ UNCHANGED <<listing, articles, response, relevant, path, article, fetch,
                   generation, prompt, summary, summarized, html_email>>

\* lines 373-375: the closing prints; main returns
MainReturn ==
    /\ pc = "sent"
    /\ pc' = "done"
    /\ UNCHANGED <<listing, articles, response, relevant, path, article, fetch,
                   generation, prompt, summary, summarized, html_email, smtp, sent,
                   calls, escaped>>

Next ==
    \/ MainScrape
    \/ ExitNoArticles
    \/ MainRank
    \/ ExitNoRelevant
    \/ MainSummarize
    \/ MainRender
    \/ MainSend
    \/ MainReturn

Spec == Init /\ [][Next]_vars

----------------------------------------------------------------------------
(* The functions on their own, over wider inputs than a full run draws     *)

InitScrape ==
    /\ pc = "scrape_call"
    /\ listing \in ScrapeListings
    /\ articles = <<>>
    /\ NoRankCall
    /\ NoSummarizeCall
    /\ NoOutput

ScrapeReturn ==
    /\ pc = "scrape_call"
    /\ articles' = scrape_search_engine_land(listing)
    /\ pc' = "scrape_ret"
    /\ UNCHANGED <<listing, response, relevant, path, article, fetch, generation,
                   prompt, summary, summarized, html_email, smtp, sent, calls, escaped>>

SpecScrape == InitScrape /\ [][ScrapeReturn]_vars

InitRank ==
    /\ pc = "rank_call"
    /\ articles \in RankArticles
    /\ response \in RankResponses
    /\ relevant = <<>>
    /\ path = "none"
    /\ NoScrapeCall
    /\ NoSummarizeCall
    /\ NoOutput

RankReturn ==
    /\ pc = "rank_call"
    /\ LET r == filter_relevant_articles(articles, response)
       IN  /\ relevant' = r.ret
           /\ path' = r.path
    /\ pc' = "rank_ret"
    /\ UNCHANGED <<listing, articles, response, article, fetch, generation, prompt,
                   summary, summarized, html_email, smtp, sent, calls, escaped>>

SpecRank == InitRank /\ [][RankReturn]_vars

InitSummarize ==
    /\ pc = "summarize_call"
    /\ article \in SumArticles
    /\ fetch \in SumFetches
    /\ generation \in SumGenerations
    /\ prompt = NoPrompt
    /\ summary = <<>>
    /\ articles = <<>>
    /\ NoScrapeCall
    /\ NoRankCall
    /\ NoOutput

SummarizeReturn ==
    /\ pc = "summarize_call"
    /\ prompt' = summary_prompt(article, fetch)
    /\ summary' = summarize_article(article, fetch, generation)
    /\ pc' = "summarize_ret"
    /\ UNCHANGED <<listing, articles, response, relevant, path, article, fetch,
                   generation, summarized, html_email, smtp, sent, calls, escaped>>

SpecSummarize == InitSummarize /\ [][SummarizeReturn]_vars

----------------------------------------------------------------------------
(* Claims about filter_relevant_articles (SpecRank)                        *)

\* the array json.loads returned, when the answer holds a parseable one
ParsedArray ==
    IF response.raised \/ re_search(response.text) = <<>> THEN <<>>
    ELSE json_loads(re_search(response.text)[1]).value

InRange(e) == e.number # <<>> /\ 1 <= e.number[1] /\ e.number[1] <= Len(articles)

Ranked(e) ==
    [title   |-> articles[e.number[1]].title,
     url     |-> articles[e.number[1]].url,
     snippet |-> articles[e.number[1]].snippet,
     relevance_score  |-> e.score,
     relevance_reason |-> e.reason]

RECURSIVE RankedAll(_)
RankedAll(es) == IF es = <<>> THEN <<>> ELSE <<Ranked(Head(es))>> \o RankedAll(Tail(es))

\* C1: when the model's array is parsed and the loop over it completes, the
\* RankedCandidates returned are exactly those of the visited entries whose
\* 1-based number n satisfies 1 <= n <= len(articles); entries with n = 0,
\* n < 0 or n > len(articles) are dropped and resolve to no Candidate.
C1_OnlyInRangeEntriesResolve ==
    (pc = "rank_ret" /\ path = "ai")
        => relevant = RankedAll(SelectSeq(Take(ParsedArray, 3), InRange))

\* there is no "[" with a "]" after it
NoArrayShape(text) ==
    ~ \E i, j \in 1..Len(text) : i < j /\ text[i].kind = "[" /\ text[j].kind = "]"

\* the lower-cased title + " " + snippet holds one of the keywords
HasKeyword(a) ==
    LET text == lower(a.title \o <<" ">> \o a.snippet)
    IN  \E k \in 1..Len(KEYWORDS) : \E i \in 1..Len(text) :
            /\ i + Len(KEYWORDS[k]) - 1 <= Len(text)
            /\ \A d \in 1..Len(KEYWORDS[k]) : text[i + d - 1] = KEYWORDS[k][d]

MatchIndexes == {i \in 1..Len(articles) : HasKeyword(articles[i])}

\* relevant is the first three keyword matches, in listing order
IsKeywordFallbackResult ==
    /\ Len(relevant) = Min(3, Cardinality(MatchIndexes))
    /\ \A k \in 1..Len(relevant) :
        \E i \in MatchIndexes :
            /\ Cardinality({j \in MatchIndexes : j < i}) = k - 1
            /\ relevant[k] = articles[i]

RankingFailed ==
    \/ response.raised
    \/ NoArrayShape(response.text)
    \/ ~json_loads(re_search(response.text)[1]).ok

\* C2: when the ranking call raises, or its answer holds no array-shaped
\* substring, or that substring is not valid JSON, the result is the keyword
\* fallback: the Candidates whose lower-cased title + " " + snippet holds a
\* keyword, in listing order, cut to the first 3; no Candidate without a
\* keyword is returned.
C2_FailureGivesKeywordFallback ==
    (pc = "rank_ret" /\ RankingFailed)
        => /\ IsKeywordFallbackResult
           /\ \A k \in 1..Len(relevant) : HasKeyword(relevant[k])

\* an answer with brackets that is not valid JSON, four Candidates of which
\* three have a keyword and one does not
C2_Witness ==
    /\ pc = "rank_ret"
    /\ ~response.raised
    /\ ~NoArrayShape(response.text)
    /\ ~json_loads(re_search(response.text)[1]).ok
    /\ Len(relevant) = 3
    /\ \E i \in 1..Len(articles) : ~HasKeyword(articles[i])
    /\ \E i \in 1..3 : ~HasKeyword(articles[i])

\* C9: filter_relevant_articles returns at most 3 RankedCandidates on every
\* path, for every input list length.
C9_AtMostThree == pc = "rank_ret" => Len(relevant) <= 3

\* the model returned four resolvable entries and three came back
C9_Witness ==
    /\ pc = "rank_ret"
    /\ path = "ai"
    /\ Len(ParsedArray) > 3
    /\ \A i \in 1..Len(ParsedArray) : InRange(ParsedArray[i])
    /\ Len(relevant) = 3

\* e comes before f in "descending score, listing order as the tie-break"
Before(e, f) ==
    \/ e.score > f.score
    \/ e.score = f.score /\ e.number[1] <= f.number[1]

RECURSIVE SortByScore(_)
SortByScore(es) ==
    IF es = <<>> THEN <<>>
    ELSE LET best == CHOOSE i \in 1..Len(es) :
                        /\ \A j \in 1..Len(es) : Before(es[i], es[j])
                        /\ \A j \in 1..(i - 1) : ~Before(es[j], es[i])
         IN  <<es[best]>>
             \o SortByScore([k \in 1..(Len(es) - 1) |->
                                IF k < best THEN es[k] ELSE es[k + 1]])

\* C10: on the AI path the result is the top 3 by relevance_score among the
\* entries the model returned, by descending score with listing order as the
\* tie-break (stated for answers whose entries all have an in-range number).
C10_TopThreeByScore ==
    (/\ pc = "rank_ret"
     /\ path = "ai"
     /\ \A i \in 1..Len(ParsedArray) : InRange(ParsedArray[i]))
        => relevant = RankedAll(Take(SortByScore(ParsedArray), 3))

----------------------------------------------------------------------------
(* Claims about summarize_article (SpecSummarize)                          *)

SnippetBullet == <<Bullet, " ">> \o article.snippet

C6_SummaryNonEmpty == pc = "summarize_ret" => summary # <<>>

----------------------------------------------------------------------------
(* Claims about scrape_search_engine_land (SpecScrape)                     *)

HasHeadingAndHref(el) ==
    /\ el.heading # <<>>
    /\ \/ el.hlink # <<>> /\ el.hlink[1] # <<>>
       \/ el.alink # <<>> /\ el.alink[1] # <<>>

\* C8: at most 30 Candidates, in listing order, one only for elements that
\* have a heading and an anchor with an href; every Candidate has a non-empty
\* title and a non-empty url; a fetch failure or a non-2xx status gives the
\* empty list.
C8_ScrapeContract ==
    pc = "scrape_ret"
        => /\ Len(articles) <= 30
           /\ Len(articles)
                <= Cardinality({i \in 1..Len(listing.elements) :
                                    HasHeadingAndHref(listing.elements[i])})
           /\ \A i \in 1..Len(articles) :
                articles[i].title # <<>> /\ articles[i].url # <<>>
           /\ (listing.net # "ok" \/ listing.status < 200 \/ listing.status > 299)
                => articles = <<>>

----------------------------------------------------------------------------
(* Claims about main() (Spec)                                              *)

Count(step) == Cardinality({i \in 1..Len(calls) : calls[i] = step})

Repeat(x, n) == [i \in 1..n |-> x]

\* C4: when the Ranker yields at least one candidate, main calls the
\* Summarizer once per selected candidate in the Ranker's order, then the
\* Renderer once, then send_email once, with one block per selected candidate;
\* send_email is never called before all summaries exist, nor twice.
C4_SummarizeAllRenderOnceSendOnce ==
    /\ Count("send") <= 1
    /\ Count("render") <= 1
    /\ Count("send") = 1
        => /\ Count("render") = 1
           /\ Len(summarized) = Len(relevant)
           /\ Len(html_email.blocks) = Len(relevant)
    /\ \A i \in 1..Len(summarized) :
        /\ i <= Len(relevant)
        /\ summarized[i].title = relevant[i].title
        /\ summarized[i].url = relevant[i].url
        /\ summarized[i].snippet = relevant[i].snippet
    /\ (relevant # <<>> /\ pc \in {"ranked", "rendered", "sent"}) => ENABLED Next
    /\ (relevant # <<>> /\ pc = "done")
        => /\ calls = <<"scrape", "rank">> \o Repeat("summarize", Len(relevant))
                        \o <<"render", "send">>
           /\ \A i \in 1..Len(relevant) :
                /\ html_email.blocks[i].title = relevant[i].title
                /\ html_email.blocks[i].url = relevant[i].url
                /\ html_email.blocks[i].summary = summarized[i].summary

\* a finished run with three selected candidates, one of them with the
\* fallback summary
C4_Witness ==
    /\ pc = "done"
    /\ Len(relevant) = 3
    /\ Count("send") = 1
    /\ \E i \in 1..3 : summarized[i].summary = <<Bullet, " ">> \o relevant[i].snippet
    /\ \E i \in 1..3 : summarized[i].summary = <<Bullet, " ", "a">>

NothingProduced ==
    /\ summarized = <<>>
    /\ html_email = NoHtml
    /\ smtp = <<>>
    /\ sent = None
    /\ ~escaped

\* C5: with no candidates from the Fetcher main returns with no Ranker,
\* Summarizer, Renderer or Delivery call; with no relevant candidates from the
\* Ranker (AI path or keyword fallback) it returns with no Summarizer,
\* Renderer or Delivery call.
C5_EarlyExits ==
    /\ (pc # "start" /\ articles = <<>>)
        => /\ pc \in {"scraped", "done"}
           /\ calls = <<"scrape">>
           /\ relevant = <<>> /\ path = "none"
           /\ NothingProduced
           /\ pc = "scraped" => (ENABLED ExitNoArticles /\ ~ENABLED MainRank)
    /\ (pc \notin {"start", "scraped"} /\ relevant = <<>>)
        => /\ pc \in {"ranked", "done"}
           /\ (articles # <<>> => calls = <<"scrape", "rank">>)
           /\ NothingProduced
           /\ pc = "ranked"
                => (ENABLED ExitNoRelevant /\ ~ENABLED MainSummarize /\ ~ENABLED MainRender)

\* main returned after a ranking call that failed and a keyword fallback that
\* matched nothing
C5_Witness ==
    /\ pc = "done"
    /\ articles # <<>>
    /\ relevant = <<>>
    /\ path \in {"except", "nomatch"}
    /\ calls = <<"scrape", "rank">>

\* C7: send_email performs connect, STARTTLS, login, send, quit in that order;
\* it returns True only if all five succeeded; when a step fails no later step
\* is performed, it returns False, no exception reaches main, and main then
\* completes.
C7_SendEmailContained ==
    Count("send") = 1
        => /\ pc \in {"sent", "done"}
           /\ ~escaped
           /\ sent \in {<<TRUE>>, <<FALSE>>}
           /\ Len(smtp) <= 5
           /\ \A k \in 1..Len(smtp) :
                /\ smtp[k].step = <<"connect", "starttls", "login", "send_message", "quit">>[k]
                /\ ~smtp[k].ok => k = Len(smtp)
           /\ sent = <<TRUE>> <=> (Len(smtp) = 5 /\ \A k \in 1..5 : smtp[k].ok)
           /\ pc = "sent" => ENABLED MainReturn

\* the login failed: nothing was sent, False came back, main returned
C7_Witness ==
    /\ pc = "done"
    /\ Len(smtp) = 3
    /\ smtp[3].step = "login" /\ ~smtp[3].ok
    /\ smtp[1].ok /\ smtp[2].ok
    /\ sent = <<FALSE>>
    /\ ~escaped

====
